---------------------------- MODULE Spec2Model ----------------------------
(***************************************************************************)
(* A model of the MedicationManager tooling scripts (qashsolutions/mango). *)
(*                                                                         *)
(* The scripts are independent command-line programs.  Each one is         *)
(* modelled as a state machine of its own; `script' says which program a   *)
(* behaviour is a run of.                                                  *)
(*                                                                         *)
(*   Spec        the file-scanning analysers: one step per discovered      *)
(*               Swift file, then the report.                              *)
(*   SpecFix     the rewriting scripts (consolidate-strings,               *)
(*               fix-colors-fonts, fix-style-issues).                      *)
(*   SpecCycles  the cycle searches over small dependency graphs.          *)
(*   SpecDeep    the cycle searches over long rings, with fairness.        *)
(*   SpecImports check-functionality's search for circular imports, with   *)
(*               fairness.                                                 *)
(*   SpecStrings analyze-strings: the strings recorded file by file, then  *)
(*               the summary of the report.                                *)
(*                                                                         *)
(* Swift source text is abstracted to a vocabulary of four lines, chosen   *)
(* so that every regular expression of the scripts has a definite answer   *)
(* on each of them; the answers are worked out beside each scan operator.  *)
(***************************************************************************)
EXTENDS Integers, Sequences, FiniteSets, TLC

VARIABLES
    \* The analysers (Spec).
    script,         \* the program that is running
    status,         \* "running", "done", or "crashed" (uncaught exception)
    swift_files,    \* the Swift files of the tree, in traversal order
    idx,            \* number of files the main loop has gone through
    lines,          \* the lines of the file read last (Python: lines)
    relative_path,  \* check-all-issues: the function-level variable
    issues,         \* the issue records collected so far, in append order
    raised,         \* paths whose open()/read() raised, in order
    printed,        \* paths for which an error message was printed
    report,         \* the report file written, or NoReport
    \* The rewriting scripts (SpecFix).
    fixer,          \* the rewriting program that is running
    fix_status,     \* how far its main has come, or "crashed"
    analysis_file,  \* string-analysis-report.json as it is on disk
    analysis,       \* self.analysis
    replacements,   \* the keys of self.replacements
    tree,           \* the Swift files below MedicationManager/
    config_dir,     \* MedicationManager/Core/Configuration exists
    fix_files,      \* swift_files: the files the loop goes through
    fix_idx,        \* number of files the loop has gone through
    original_content, \* the lines read from the current file
    content,        \* the lines after the replacements
    written,        \* the paths opened for writing, in order
    common_strings_file, \* the text this run has put in CommonStrings.swift
    \* The cycle searches (SpecCycles, SpecDeep).
    cyc_script,     \* the dependency analyser that is running
    cyc_status,     \* "pairs", "cycles" or "done"
    dependencies,   \* node -> its neighbours, in iteration order
    manager_files,  \* the nodes that have a discovered file
    starts,         \* the nodes the outer loop goes through, in order
    start_idx,      \* number of start nodes the outer loop has finished
    stack,          \* the active calls of the search, outermost first
    circular_deps,  \* the direct pairs, or the chains of the advanced script
    checked_cycles, \* the cycle keys seen (checked_cycles, checked)
    longer_cycles,  \* analyze_circular_deps: the longer cycles reported
    \* check-functionality, check_circular_dependencies (SpecImports).
    imp_status,     \* "start", "built" or "done"
    file_imports,   \* self.file_imports: path -> the modules it imports
    imp_graph,      \* dependencies: file name -> its local imports
    imp_keys,       \* the keys of dependencies, in insertion order
    imp_idx,        \* number of keys the loop of line 252 has gone through
    imp_visited,    \* visited
    imp_circular,   \* self.results['circular_dependencies']
    \* analyze-strings (SpecStrings).
    str_status,     \* "start", "extracting" or "done"
    str_tree,       \* the Swift files below the project root
    str_files,      \* swift_files of analyze_project
    str_idx,        \* number of files extract_strings was called on
    strings,        \* self.strings: string -> its locations, in order
    string_counts,  \* self.string_counts: string -> count
    str_report      \* the summary of the report, or NoSummary

scanVars == <<script, status, swift_files, idx, lines, relative_path,
              issues, raised, printed, report>>

fixVars == <<fixer, fix_status, analysis_file, analysis, replacements, tree,
             config_dir, fix_files, fix_idx, original_content, content, written,
                   common_strings_file>>

cycVars == <<cyc_script, cyc_status, dependencies, manager_files, starts,
             start_idx, stack, circular_deps, checked_cycles, longer_cycles>>

impVars == <<imp_status, file_imports, imp_graph, imp_keys, imp_idx, imp_visited,
             imp_circular>>

strVars == <<str_status, str_tree, str_files, str_idx, strings, string_counts,
             str_report>>

vars == <<scanVars, fixVars, cycVars, impVars, strVars>>

-----------------------------------------------------------------------------
(* Bounds of the model.                                                    *)

MaxFiles == 2       \* Swift files in the scanned tree
MaxLines == 2       \* lines in one Swift file
MaxTree == 2        \* Swift files below MedicationManager/ before a rewriting run
MaxDeps == 6        \* dependencies (edges) in a small dependency graph
RingSize == 12      \* files in a long dependency ring

-----------------------------------------------------------------------------
(* The scanned tree.                                                       *)

\* Paths relative to the project root.
PathHome  == "MedicationManager/Views/HomeView.swift"
PathData  == "MedicationManager/Core/DataManager.swift"
PathTest  == "MedicationManagerTests/HomeViewTests.swift"
PathBuild == ".build/checkouts/Dep.swift"

Paths == {PathHome, PathData, PathTest, PathBuild}

\* The line vocabulary.
LPlain  == "let x = 1"
LCast   == "let v = x as! Foo"
LUIApp  == "UIApplication.shared.open(url)"
LImport == "import UIKit"

LineKinds == {LPlain, LCast, LUIApp, LImport}

SeqsUpTo(S, n) == UNION {[1..k -> S] : k \in 0..n}

\* What open()/read() of a file yields: its lines, or an exception.
Unreadable == [ok |-> FALSE, lines |-> <<>>]

FileContents ==
    {Unreadable} \cup {[ok |-> TRUE, lines |-> l] : l \in SeqsUpTo(LineKinds, MaxLines)}

\* Sequences of distinct paths: the order in which the tree is walked.
DistinctSeqs(S, n) ==
    {s \in SeqsUpTo(S, n) : \A i, j \in DOMAIN s : s[i] = s[j] => i = j}

\* No report file was written.
NoReport == [written |-> FALSE, total |-> 0, entries |-> <<>>]
Unbound  == "unbound"

\* self.analysis before the constructor has loaded the analysis report.
NotLoaded == [loaded |-> FALSE, has_duplicates |-> FALSE, duplicates |-> {}]

\* string-analysis-report.json does not exist.
MissingFile == [state |-> "missing", has_duplicates |-> FALSE, duplicates |-> {}]

\* No analyser is running.
ScanIdle ==
    /\ script = "none"
    /\ status = "idle"
    /\ swift_files = <<>>
    /\ idx = 0
    /\ lines = <<>>
    /\ relative_path = Unbound
    /\ issues = <<>>
    /\ raised = <<>>
    /\ printed = <<>>
    /\ report = NoReport

\* No dependency analyser is running.
CycIdle ==
    /\ cyc_script = "none"
    /\ cyc_status = "idle"
    /\ dependencies = <<>>
    /\ manager_files = {}
    /\ starts = <<>>
    /\ start_idx = 0
    /\ stack = <<>>
    /\ circular_deps = <<>>
    /\ checked_cycles = {}
    /\ longer_cycles = <<>>

\* check-functionality is not running.
\* generate_consolidation_report has not been reached.
NoSummary == [total_unique_strings |-> -1]

\* analyze-strings is not running.
StrIdle ==
    /\ str_status = "idle"
    /\ str_tree = {}
    /\ str_files = <<>>
    /\ str_idx = 0
    /\ strings = <<>>
    /\ string_counts = <<>>
    /\ str_report = NoSummary

ImpIdle ==
    /\ imp_status = "idle"
    /\ file_imports = <<>>
    /\ imp_graph = <<>>
    /\ imp_keys = <<>>
    /\ imp_idx = 0
    /\ imp_visited = {}
    /\ imp_circular = <<>>

\* No rewriting script is running.
\* The run has not written CommonStrings.swift.
NotWritten == <<"not written">>

FixIdle ==
    /\ fixer = "none"
    /\ fix_status = "idle"
    /\ analysis_file = MissingFile
    /\ analysis = NotLoaded
    /\ replacements = {}
    /\ tree = {}
    /\ config_dir = FALSE
    /\ fix_files = <<>>
    /\ fix_idx = 0
    /\ original_content = <<>>
    /\ content = <<>>
    /\ written = <<>>
    /\ common_strings_file = NotWritten

-----------------------------------------------------------------------------
(* The scripts of Spec.                                                    *)

CheckForceUnwrap       == "check-force-unwrap"
CheckOnChangeUsage     == "check-onchange-usage"
AnalyzeForceUnwrapping == "analyze-force-unwrapping"
CheckAllIssues         == "check-all-issues"
ComprehensiveAnalysis  == "comprehensive-analysis"
ValidateDetailed       == "validate-detailed"
CheckRuntimeSimulation == "check-runtime-simulation"

LoopScripts == {CheckForceUnwrap, CheckOnChangeUsage, AnalyzeForceUnwrapping,
                CheckAllIssues, ComprehensiveAnalysis, ValidateDetailed}

\* `word in str(path)' for the words the scripts test paths against.
Has(p, word) ==
    <<p, word>> \in {<<PathBuild, ".build">>, <<PathTest, "Test">>,
                     <<PathHome, "View.swift">>, <<PathHome, "Manager">>,
                     <<PathData, "Manager">>, <<PathTest, "Manager">>}

\* The files below the application directory MedicationManager/.
InAppDir(p) == p \in {PathHome, PathData}

\* sorted(swift_files): pathlib orders paths part by part.
PathRank(p) ==
    CASE p = PathBuild -> 1 [] p = PathData -> 2 [] p = PathHome -> 3 [] p = PathTest -> 4

RECURSIVE Insert(_, _)
Insert(p, s) ==
    IF s = <<>> THEN <<p>>
    ELSE IF PathRank(p) < PathRank(Head(s)) THEN <<p>> \o s
    ELSE <<Head(s)>> \o Insert(p, Tail(s))

RECURSIVE Sorted(_)
Sorted(s) == IF s = <<>> THEN <<>> ELSE Insert(Head(s), Sorted(Tail(s)))

\* validate-detailed, collect_swift_files: os.walk of the project root with
\* the excluded directories pruned, then sorted.
validator_collect_swift_files(walked) ==
    Sorted(SelectSeq(walked, LAMBDA p : ~Has(p, ".build")))

\* check-runtime-simulation, collect_swift_files: the same below
\* project_root / 'MedicationManager'.
collect_swift_files(walked) ==
    Sorted(SelectSeq(walked, LAMBDA p : InAppDir(p) /\ ~Has(p, ".build")))

\* The list a script's main loop runs over.
Files ==
    CASE script = ValidateDetailed       -> validator_collect_swift_files(swift_files)
      [] script = CheckRuntimeSimulation -> collect_swift_files(swift_files)
      [] OTHER                           -> swift_files

\* The files a script's loop passes over without opening them.
Skipped(s, p) ==
    CASE s = CheckForceUnwrap       -> Has(p, ".build")
      [] s = CheckOnChangeUsage     -> Has(p, ".build")
      [] s = AnalyzeForceUnwrapping -> Has(p, ".build")
      [] s = CheckAllIssues         -> Has(p, "Test") \/ Has(p, ".build")
      [] OTHER                      -> FALSE

\* 1-based numbers of the lines of ls equal to kind, ascending:
\* for i, line in enumerate(lines, 1): if <pattern matches line>.
LinesOf(ls, kind) ==
    SelectSeq([i \in 1..Len(ls) |-> i], LAMBDA i : ls[i] = kind)

Entry(k, r) == [key |-> k, rec |-> r]

Twice(s) == [k \in 1..(2 * Len(s)) |-> s[(k + 1) \div 2]]

Count(ls, kind) == Len(LinesOf(ls, kind))

-----------------------------------------------------------------------------
(* What each script finds in one readable file.  On the vocabulary:        *)
(*   LPlain, LImport  hold no "!", no quote, no brace: no pattern matches. *)
(*   LUIApp           holds "UIApplication"; its parentheses balance.      *)
(*   LCast            holds " as! Foo".                                    *)

\* check-force-unwrap.  On LCast, (?<![!=])!(?![=!]) matches, but neither
\* :\s*\w+! nor \w+![\.\[\(]|!$ does; ' as! ' in line gives force_cast.
\* The records are keyed by file path and carry no severity.
find_force_unwraps(p, ls) ==
    LET at == LinesOf(ls, LCast)
    IN  [k \in 1..Len(at) |->
            Entry(p, [line |-> at[k], type |-> "force_cast", content |-> LCast])]

\* check-onchange-usage.  No line of the vocabulary holds ".onChange".
check_onchange_usage(p, ls) == <<>>

\* analyze-force-unwrapping.  On LCast the patterns [a-zA-Z_]\w*!(?![\w=])
\* ("as!") and as!\s+\w+ ("as! Foo") match, in that order.
find_force_unwrapping(p, ls) ==
    LET at == Twice(LinesOf(ls, LCast))
    IN  [k \in 1..Len(at) |->
            Entry(p, [line  |-> at[k],
                      type  |-> IF k % 2 = 1 THEN "variable!" ELSE "as! cast",
                      code  |-> LCast,
                      match |-> IF k % 2 = 1 THEN "as!" ELSE "as! Foo"])]

\* check-all-issues, lines 24-138.  On LCast the force-unwrap pattern
\* matches but 'as!' is among the excludes; as!\s+\w+ gives force_cast.
\* 'UIApplication' in content and 'import UIKit' not in content gives
\* missing_import, with line 0.
analyze_swift_file(p, ls) ==
    LET at == LinesOf(ls, LCast)
    IN  [k \in 1..Len(at) |->
            Entry("force_cast",
                  [file |-> p, line |-> at[k], code |-> LCast, severity |-> "High"])]
        \o
        (IF Count(ls, LUIApp) > 0 /\ Count(ls, LImport) = 0
         THEN <<Entry("missing_import",
                      [file |-> p, line |-> 0, missing |-> "import UIKit",
                       severity |-> "High"])>>
         ELSE <<>>)

\* add_issue without the severity field.
add_issue_no_severity(issue_type, file_path, line_number, description, severity) ==
    Entry(issue_type, [file |-> file_path, line |-> line_number,
                       description |-> description])

\* comprehensive-analysis: add_issue.
add_issue(issue_type, file_path, line_number, description, severity) ==
    Entry(issue_type, [file |-> file_path, line |-> line_number,
                       description |-> description, severity |-> severity])

\* Characters of a line; check_empty_files measures the stripped content.
LineLength(l) ==
    CASE l = LPlain -> 9 [] l = LCast -> 17 [] l = LUIApp -> 30 [] l = LImport -> 12

RECURSIVE ContentLength(_)
ContentLength(ls) ==
    IF ls = <<>> THEN 0
    ELSE LineLength(Head(ls)) + (IF Len(ls) > 1 THEN 1 ELSE 0) + ContentLength(Tail(ls))

EmptyFileChars == 100
EmptyFileLines == 5

\* comprehensive-analysis, check_force_unwrapping: on LCast both [^!]![^=!]
\* and as!\s+\w+ match, and each match adds a force_unwrapping issue.
check_force_unwrapping(p, ls) ==
    LET at == Twice(LinesOf(ls, LCast))
    IN  [k \in 1..Len(at) |->
            add_issue("force_unwrapping", p, at[k], "Force unwrapping found", "High")]

check_missing_imports(p, ls) ==
    IF Count(ls, LUIApp) > 0 /\ Count(ls, LImport) = 0
    THEN <<add_issue("missing_import", p, 0, "missing 'import UIKit'", "High")>>
    ELSE <<>>

check_empty_files(p, ls) ==
    IF ContentLength(ls) < EmptyFileChars /\ Len(ls) < EmptyFileLines
    THEN <<add_issue("empty_file", p, 0, "File appears to be empty", "Low")>>
    ELSE <<>>

\* comprehensive-analysis, analyze_file lines 36-59; the checks for
\* hardcoded values, method calls, navigation, deprecated APIs and types
\* match no line of the vocabulary.
analyze_file(p, ls) ==
    check_force_unwrapping(p, ls) \o check_missing_imports(p, ls)
        \o check_empty_files(p, ls)

\* validate-detailed: add_issue.  The records carry no severity.
validator_add_issue(issue_type, file_path, line_num, description) ==
    Entry(issue_type, [file |-> file_path, line |-> line_num,
                       description |-> description])

check_apptheme_usage(p, ls) ==
    IF Has(p, "View.swift") /\ ~Has(p, "Manager") /\ ~Has(p, "Test")
    THEN <<validator_add_issue("apptheme_violations", p, 0,
                               "View file doesn't use AppTheme for styling")>>
    ELSE <<>>

check_imports(p, ls) ==
    (IF Count(ls, LImport) > 1
     THEN <<validator_add_issue("import_issues", p, 0, "Duplicate imports")>>
     ELSE <<>>)
    \o
    (IF Has(p, "View.swift")
     THEN <<validator_add_issue("import_issues", p, 0,
                                "View file missing SwiftUI import")>>
     ELSE <<>>)

\* [^!]=.*!(?![=!]) matches once in each LCast line; the line number is
\* content[:match.start()].count('\n') + 1.
check_memory_safety(p, ls) ==
    LET at == LinesOf(ls, LCast)
    IN  [k \in 1..Len(at) |->
            validator_add_issue("memory_issues", p, at[k], "Force unwrapping detected")]

\* validate-detailed, validate_file lines 132-142; check_syntax,
\* check_hardcoded_values, check_naming_conventions, check_async_await and
\* check_todos match no line of the vocabulary.
validate_file(p, ls) ==
    check_apptheme_usage(p, ls) \o check_imports(p, ls) \o check_memory_safety(p, ls)

\* check_force_unwrap_scenarios with 'line': i instead of i + 1.
check_force_unwrap_scenarios_zero_based(p, ls) ==
    LET at == LinesOf(ls, LCast)
    IN  [k \in 1..Len(at) |->
            Entry("Potential Crashes",
                  [file |-> p, line |-> at[k] - 1, code |-> LCast,
                   issue |-> "Force cast", severity |-> "high"])]

\* check-runtime-simulation, check_force_unwrap_scenarios: for i, line in
\* enumerate(lines), ' as! ' in line gives a record with line i + 1.
check_force_unwrap_scenarios(p, ls) ==
    LET at == LinesOf(ls, LCast)
    IN  [k \in 1..Len(at) |->
            Entry("Potential Crashes",
                  [file |-> p, line |-> (at[k] - 1) + 1, code |-> LCast,
                   issue |-> "Force cast", severity |-> "high"])]

-----------------------------------------------------------------------------
(* Spec: the analysers.                                                    *)

Init ==
    /\ script \in LoopScripts \cup {CheckRuntimeSimulation}
    /\ status = "running"
    /\ swift_files \in DistinctSeqs(Paths, MaxFiles)
    /\ idx = 0
    /\ lines = <<>>
    /\ relative_path = Unbound
    /\ issues = <<>>
    /\ raised = <<>>
    /\ printed = <<>>
    /\ report = NoReport
    /\ FixIdle
    /\ CycIdle
    /\ ImpIdle
    /\ StrIdle

InLoop(s) == script = s /\ status = "running" /\ idx < Len(Files)

Pass == idx' = idx + 1 /\ UNCHANGED <<lines, relative_path, issues, raised, printed>>

\* open()/read() raised and nothing caught it: the traceback ends the run.
Uncaught(p) ==
    /\ status' = "crashed"
    /\ raised' = Append(raised, p)
    /\ UNCHANGED <<idx, lines, relative_path, issues, printed>>

\* The file was read and scanned.
Scanned(c, found) ==
    /\ lines' = c.lines
    /\ issues' = issues \o found
    /\ idx' = idx + 1
    /\ UNCHANGED <<status, raised, printed>>

\* check-force-unwrap, scan_project: no handler around find_force_unwraps.
scan_project ==
    /\ InLoop(CheckForceUnwrap)
    /\ LET p == Files[idx + 1]
       IN  IF Skipped(script, p)
           THEN Pass /\ UNCHANGED status
           ELSE \E c \in FileContents :
                   IF c.ok
                   THEN Scanned(c, find_force_unwraps(p, c.lines)) /\ UNCHANGED relative_path
                   ELSE Uncaught(p)
    /\ UNCHANGED <<script, swift_files, report>>
    /\ UNCHANGED <<fixVars, cycVars, impVars, strVars>>

\* check-onchange-usage, main: no handler around check_onchange_usage.
onchange_main ==
    /\ InLoop(CheckOnChangeUsage)
    /\ LET p == Files[idx + 1]
       IN  IF Skipped(script, p)
           THEN Pass /\ UNCHANGED status
           ELSE \E c \in FileContents :
                   IF c.ok
                   THEN Scanned(c, check_onchange_usage(p, c.lines)) /\ UNCHANGED relative_path
                   ELSE Uncaught(p)
    /\ UNCHANGED <<script, swift_files, report>>
    /\ UNCHANGED <<fixVars, cycVars, impVars, strVars>>

\* analyze-force-unwrapping, analyze_project: find_force_unwrapping
\* catches the exception, prints it and returns no violations.
analyze_project ==
    /\ InLoop(AnalyzeForceUnwrapping)
    /\ LET p == Files[idx + 1]
       IN  IF Skipped(script, p)
           THEN Pass /\ UNCHANGED status
           ELSE \E c \in FileContents :
                   IF c.ok
                   THEN Scanned(c, find_force_unwrapping(p, c.lines)) /\ UNCHANGED relative_path
                   ELSE /\ printed' = Append(printed, p)
                        /\ raised' = Append(raised, p)
                        /\ idx' = idx + 1
                        /\ UNCHANGED <<status, lines, relative_path, issues>>
    /\ UNCHANGED <<script, swift_files, report>>
    /\ UNCHANGED <<fixVars, cycVars, impVars, strVars>>

\* The record the handler of check-all-issues appends (lines 140-145).
file_error(path) ==
    Entry("file_errors", [file |-> path, error |-> "str(e)", severity |-> "Critical"])

\* check-all-issues, analyze_swift_files: relative_path is assigned after
\* the read (line 22), and the handler (lines 140-145) uses it.  It is
\* unbound until a first file was read, which makes the handler itself
\* raise UnboundLocalError; after that it names the file read last.
analyze_swift_files ==
    /\ InLoop(CheckAllIssues)
    /\ LET p == Files[idx + 1]
       IN  IF Skipped(script, p)
           THEN Pass /\ UNCHANGED status
           ELSE \E c \in FileContents :
                   IF c.ok
                   THEN /\ Scanned(c, analyze_swift_file(p, c.lines))
                        /\ relative_path' = p
                   ELSE IF relative_path = Unbound
                        THEN Uncaught(p)
                        ELSE /\ issues' = Append(issues, file_error(relative_path))
                             /\ raised' = Append(raised, p)
                             /\ idx' = idx + 1
                             /\ UNCHANGED <<status, lines, relative_path, printed>>
    /\ UNCHANGED <<script, swift_files, report>>
    /\ UNCHANGED <<fixVars, cycVars, impVars, strVars>>

\* comprehensive-analysis, analyze_all_files / analyze_file: relative_path
\* is local to analyze_file and assigned after the read (line 31), so the
\* handler (lines 61-66) raises UnboundLocalError, which nothing catches.
analyze_all_files ==
    /\ InLoop(ComprehensiveAnalysis)
    /\ LET p == Files[idx + 1]
       IN  \E c \in FileContents :
              IF c.ok
              THEN Scanned(c, analyze_file(p, c.lines)) /\ UNCHANGED relative_path
              ELSE Uncaught(p)
    /\ UNCHANGED <<script, swift_files, report>>
    /\ UNCHANGED <<fixVars, cycVars, impVars, strVars>>

\* validate-detailed, validate_project / validate_file: the handler
\* (line 145) records the failure as a syntax error with line 0.
validate_project ==
    /\ InLoop(ValidateDetailed)
    /\ LET p == Files[idx + 1]
       IN  \E c \in FileContents :
              IF c.ok
              THEN Scanned(c, validate_file(p, c.lines)) /\ UNCHANGED relative_path
              ELSE /\ issues' = Append(issues,
                          validator_add_issue("syntax_errors", p, 0, "Failed to read file"))
                   /\ raised' = Append(raised, p)
                   /\ idx' = idx + 1
                   /\ UNCHANGED <<status, lines, relative_path, printed>>
    /\ UNCHANGED <<script, swift_files, report>>
    /\ UNCHANGED <<fixVars, cycVars, impVars, strVars>>

\* The report a script saves: the count it stores and the records.
Report(n, entries) == [written |-> TRUE, total |-> n, entries |-> entries]

ReportingScripts ==
    {AnalyzeForceUnwrapping, CheckAllIssues, ComprehensiveAnalysis, ValidateDetailed}

\* The end of main once the loop is over: the summary is printed and, in
\* the scripts that save one, the report is written.
main_report ==
    /\ script \in LoopScripts /\ status = "running" /\ idx = Len(Files)
    /\ status' = "done"
    /\ report' = IF script \in ReportingScripts
                 THEN Report(Len(issues), issues)
                 ELSE NoReport
    /\ UNCHANGED <<script, swift_files, idx, lines, relative_path, issues, raised, printed>>
    /\ UNCHANGED <<fixVars, cycVars, impVars, strVars>>

RECURSIVE Concat(_)
Concat(ss) == IF ss = <<>> THEN <<>> ELSE Head(ss) \o Concat(Tail(ss))

\* check-runtime-simulation, simulate lines 28-35: eight checks, each a
\* loop over collect_swift_files() in which a file that cannot be read is
\* passed over (except: pass).  Only check_force_unwrap_scenarios matches a
\* line of the vocabulary.  `raised' lists each unreadable file once.
simulate ==
    /\ script = CheckRuntimeSimulation /\ status = "running"
    /\ \E disk \in [1..Len(Files) -> FileContents] :
          /\ issues' = Concat([i \in 1..Len(Files) |->
                                  IF disk[i].ok
                                  THEN check_force_unwrap_scenarios(Files[i], disk[i].lines)
                                  ELSE <<>>])
          /\ raised' = SelectSeq(Files, LAMBDA p :
                                  \E i \in 1..Len(Files) : Files[i] = p /\ ~disk[i].ok)
    /\ status' = "checked"
    /\ idx' = Len(Files)
    /\ UNCHANGED <<script, swift_files, lines, relative_path, printed, report>>
    /\ UNCHANGED <<fixVars, cycVars, impVars, strVars>>

\* check-runtime-simulation, generate_simulation_report: severity_counts
\* is assigned only in the else branch (line 347) and read at line 376, so
\* with no issue the function raises UnboundLocalError before the report
\* is opened.
generate_simulation_report ==
    /\ script = CheckRuntimeSimulation /\ status = "checked"
    /\ LET total_issues == Len(issues)
       IN  IF total_issues = 0
           THEN status' = "crashed" /\ UNCHANGED report
           ELSE status' = "done" /\ report' = Report(total_issues, issues)
    /\ UNCHANGED <<script, swift_files, idx, lines, relative_path, issues, raised, printed>>
    /\ UNCHANGED <<fixVars, cycVars, impVars, strVars>>

Next ==
    \/ scan_project
    \/ onchange_main
    \/ analyze_project
    \/ analyze_swift_files
    \/ analyze_all_files
    \/ validate_project
    \/ main_report
    \/ simulate
    \/ generate_simulation_report

Spec == Init /\ [][Next]_vars

-----------------------------------------------------------------------------
(* The rewriting scripts: consolidate-strings, fix-colors-fonts and        *)
(* fix-style-issues.  Each goes through the Swift files below              *)
(* MedicationManager/, applies its replacements to the text of a file and  *)
(* writes the file back when the text changed.                             *)

ConsolidateStrings == "consolidate-strings"
FixColorsFonts     == "fix-colors-fonts"
FixStyleIssues     == "fix-style-issues"
Fixers == {ConsolidateStrings, FixColorsFonts, FixStyleIssues}

\* self.protected_files, the same set in the three scripts.
protected_files ==
    {"FirebaseManager.swift", "PhoneAuthView.swift", "LoginView.swift",
     "MedicationManagerApp.swift"}

PathLogin    == "MedicationManager/Views/LoginView.swift"
PathFirebase == "MedicationManager/Core/FirebaseManager.swift"
PathPhone    == "MedicationManager/Views/Auth/PhoneAuthView.swift"
PathApp      == "MedicationManager/MedicationManagerApp.swift"
PathDep      == "MedicationManager/.build/Dep.swift"
PathCommon   == "MedicationManager/Core/Configuration/CommonStrings.swift"
PathStyleReport == "style-fixes-report.json"
FixPaths == {PathHome, PathLogin, PathFirebase, PathPhone, PathApp, PathDep, PathCommon}

\* The base name of a path (Python: file in os.walk, file_path.name).
Name(p) ==
    CASE p = PathHome     -> "HomeView.swift"
      [] p = PathLogin    -> "LoginView.swift"
      [] p = PathFirebase -> "FirebaseManager.swift"
      [] p = PathPhone    -> "PhoneAuthView.swift"
      [] p = PathApp      -> "MedicationManagerApp.swift"
      [] p = PathDep      -> "Dep.swift"
      [] p = PathCommon   -> "CommonStrings.swift"
      [] p = PathStyleReport -> "style-fixes-report.json"

\* The path lies below a directory of exclude_dirs.
InExcludedDir(p) == p = PathDep

\* The position of a path in sorted(swift_files).
FixRank(p) ==
    CASE p = PathDep      -> 1
      [] p = PathCommon   -> 2
      [] p = PathFirebase -> 3
      [] p = PathApp      -> 4
      [] p = PathPhone    -> 5
      [] p = PathHome     -> 6
      [] p = PathLogin    -> 7

\* The orders in which a directory walk can deliver the files of a set.
Orders(S) == {s \in DistinctSeqs(S, Cardinality(S)) : Len(s) = Cardinality(S)}

\* sorted(swift_files)
SortedFiles(S) == CHOOSE s \in Orders(S) :
                     \A i, j \in DOMAIN s : i < j => FixRank(s[i]) < FixRank(s[j])

\* Lines of Swift text that the replacements of some script change.
TSave   == "Button(\"Save\") { }"
TFailed == "print(\"Failed to load\")"
TRed    == "Text(t).background(Color.red)"
TFunc   == "func Render() {"
FixLines == {LPlain, TSave, TFailed, TRed, TFunc}

FixFileContents ==
    {Unreadable} \cup {[ok |-> TRUE, lines |-> l] : l \in SeqsUpTo(FixLines, MaxLines)}

\* The lines of the generated CommonStrings.swift that a replacement of
\* consolidate-strings matches (generate_app_strings, lines 207 and 246).
GSave   == "static let save = NSLocalizedString(\"common.save\", value: \"Save\", comment: \"Save\")"
GFailed == "String(format: NSLocalizedString(\"error.failedTo\", value: \"Failed to %@\", comment: \"Failed to do something\"), action)"
common_strings_content == <<GSave, GFailed>>

\* The contents string-analysis-report.json can have: absent, not JSON,
\* JSON without the key 'duplicates', or JSON whose 'duplicates' has the
\* given keys.
AnalysisFiles ==
    {MissingFile,
     [state |-> "unparsable", has_duplicates |-> FALSE, duplicates |-> {}],
     [state |-> "parsed", has_duplicates |-> FALSE, duplicates |-> {}]}
    \cup {[state |-> "parsed", has_duplicates |-> TRUE, duplicates |-> d] :
             d \in SUBSET {"Save", "save"}}

\* process_duplicates, lines 76-79: the button strings that become keys
\* of self.replacements, in quotes.
button_replacements(duplicates) ==
    IF "Save" \in duplicates \/ "save" \in duplicates THEN {"\"Save\""} ELSE {}

\* update_source_files, lines 286-295, on one line: the direct
\* replacements, then the patterns ("Failed to (.+)" is greedy).
consolidate_line(l, repl) ==
    CASE l = TSave /\ "\"Save\"" \in repl -> "Button(AppStrings.Common.save) { }"
      [] l = TFailed -> "print(AppStrings.ErrorMessages.failedTo(_:)(\"load\"))"
      [] l = GSave /\ "\"Save\"" \in repl ->
           "static let save = NSLocalizedString(\"common.save\", value: AppStrings.Common.save, comment: AppStrings.Common.save)"
      [] l = GFailed ->
           "String(format: NSLocalizedString(\"error.failedTo\", value: AppStrings.ErrorMessages.failedTo(_:)(\"%@\", comment: \"Failed to do something\")), action)"
      [] OTHER -> l

\* fix-colors-fonts, fix_colors: the mapping '.red' comes before
\* 'Color.red' and is applied inside it.
fix_colors_line(l) ==
    CASE l = TRed -> "Text(t).background(ColorAppTheme.Colors.error)"
      [] OTHER -> l

\* fix-style-issues, fix_naming_conventions: func_pattern.
fix_naming_line(l) ==
    CASE l = TFunc -> "func render() {"
      [] OTHER -> l

\* The text of a file after the replacements of the running script.
Fixed(ls) ==
    [i \in 1..Len(ls) |->
        CASE fixer = ConsolidateStrings -> consolidate_line(ls[i], replacements)
          [] fixer = FixColorsFonts     -> fix_colors_line(ls[i])
          [] OTHER                      -> fix_naming_line(ls[i])]

\* consolidate-strings, update_source_files lines 272-276: every
\* directory is walked, and protected base names are left out.
update_source_files_walk(t) == {p \in t : Name(p) \notin protected_files}

\* fix-colors-fonts, collect_swift_files without its filter on the name.
color_collect_all_swift_files(t) == {p \in t : ~InExcludedDir(p)}

\* fix-colors-fonts, collect_swift_files.
color_collect_swift_files(t) ==
    {p \in t : ~InExcludedDir(p) /\ Name(p) \notin protected_files}

\* fix-style-issues, collect_swift_files: no filter on the name here.
style_collect_swift_files(t) == {p \in t : ~InExcludedDir(p)}

InitFix ==
    /\ fixer \in Fixers
    /\ fix_status = "start"
    /\ tree \in {t \in SUBSET FixPaths : Cardinality(t) <= MaxTree}
    /\ config_dir \in BOOLEAN
    /\ PathCommon \in tree => config_dir
    /\ fixer # ConsolidateStrings => config_dir
    /\ analysis_file \in (IF fixer = ConsolidateStrings THEN AnalysisFiles ELSE {MissingFile})
    /\ analysis = NotLoaded
    /\ replacements = {}
    /\ fix_files = <<>>
    /\ fix_idx = 0
    /\ original_content = <<>>
    /\ content = <<>>
    /\ written = <<>>
    /\ common_strings_file = NotWritten
    /\ ScanIdle
    /\ CycIdle
    /\ ImpIdle
    /\ StrIdle

At(f, s) == fixer = f /\ fix_status = s

\* The constructor without the load of lines 20-21.
StringConsolidator_init_no_load ==
    /\ At(ConsolidateStrings, "start")
    /\ analysis' = [loaded |-> TRUE, has_duplicates |-> TRUE, duplicates |-> {}]
    /\ fix_status' = "constructed"
    /\ UNCHANGED <<fixer, analysis_file, replacements, tree, config_dir, fix_files,
                   fix_idx, original_content, content, written,
                   common_strings_file>>
    /\ UNCHANGED <<scanVars, cycVars, impVars, strVars>>

\* consolidate-strings, main line 310 and __init__: open() raises when the
\* report is missing and json.load when it is not JSON; nothing catches it.
StringConsolidator_init ==
    /\ At(ConsolidateStrings, "start")
    /\ IF analysis_file.state = "parsed"
       THEN /\ analysis' = [loaded |-> TRUE,
                            has_duplicates |-> analysis_file.has_duplicates,
                            duplicates |-> analysis_file.duplicates]
            /\ fix_status' = "constructed"
       ELSE /\ fix_status' = "crashed"
            /\ UNCHANGED analysis
    /\ UNCHANGED <<fixer, analysis_file, replacements, tree, config_dir, fix_files,
                   fix_idx, original_content, content, written,
                   common_strings_file>>
    /\ UNCHANGED <<scanVars, cycVars, impVars, strVars>>

\* consolidate, steps 1 to 3 (process_duplicates, process_patterns,
\* create_common_strings): self.analysis['duplicates'] raises KeyError when
\* the key is absent; the rest works on memory only.
process_duplicates ==
    /\ At(ConsolidateStrings, "constructed")
    /\ IF analysis.has_duplicates
       THEN /\ replacements' = button_replacements(analysis.duplicates)
            /\ fix_status' = "prepared"
       ELSE /\ fix_status' = "crashed"
            /\ UNCHANGED replacements
    /\ UNCHANGED <<fixer, analysis_file, analysis, tree, config_dir, fix_files,
                   fix_idx, original_content, content, written,
                   common_strings_file>>
    /\ UNCHANGED <<scanVars, cycVars, impVars, strVars>>

\* consolidate, step 4: CommonStrings.swift is opened for writing; open()
\* raises when its directory does not exist.
generate_app_strings ==
    /\ At(ConsolidateStrings, "prepared")
    /\ IF config_dir
       THEN /\ written' = Append(written, PathCommon)
            /\ tree' = tree \cup {PathCommon}
            /\ content' = common_strings_content
            /\ common_strings_file' = common_strings_content
            /\ fix_status' = "generated"
       ELSE /\ fix_status' = "crashed"
            /\ UNCHANGED <<written, tree, content, common_strings_file>>
    /\ UNCHANGED <<fixer, analysis_file, analysis, replacements, config_dir,
                   fix_files, fix_idx, original_content>>
    /\ UNCHANGED <<scanVars, cycVars, impVars, strVars>>

\* The loop body of the three scripts: read, replace, write back if the
\* text changed.  A read that raises is caught and printed.
ProcessFile(p, c) ==
    /\ fix_idx' = fix_idx + 1
    /\ IF c.ok
       THEN /\ original_content' = c.lines
            /\ content' = Fixed(c.lines)
            /\ written' = IF Fixed(c.lines) # c.lines THEN Append(written, p) ELSE written
            /\ common_strings_file' = IF Fixed(c.lines) # c.lines /\ p = PathCommon
                                      THEN Fixed(c.lines)
                                      ELSE common_strings_file
       ELSE UNCHANGED <<original_content, content, written,
                   common_strings_file>>
    /\ UNCHANGED <<fixer, fix_status, analysis_file, analysis, replacements, tree,
                   config_dir, fix_files>>
    /\ UNCHANGED <<scanVars, cycVars, impVars, strVars>>

InFixLoop(f) == At(f, "updating") /\ fix_idx < Len(fix_files)

\* consolidate, step 5, lines 272-276: the walk, made after
\* CommonStrings.swift was created.
update_source_files_collect ==
    /\ At(ConsolidateStrings, "generated")
    /\ fix_files' \in Orders(update_source_files_walk(tree))
    /\ fix_status' = "updating"
    /\ UNCHANGED <<fixer, analysis_file, analysis, replacements, tree, config_dir,
                   fix_idx, original_content, content, written,
                   common_strings_file>>
    /\ UNCHANGED <<scanVars, cycVars, impVars, strVars>>

\* What a read of p returns: the file this run has just generated has the
\* generated text, any other file has some text or cannot be read.
Readable(p) ==
    IF p = PathCommon /\ fixer = ConsolidateStrings
    THEN {[ok |-> TRUE, lines |-> common_strings_content]}
    ELSE FixFileContents

\* consolidate, step 5, lines 278-305: one file.
update_source_files ==
    /\ InFixLoop(ConsolidateStrings)
    /\ \E c \in Readable(fix_files[fix_idx + 1]) : ProcessFile(fix_files[fix_idx + 1], c)

\* consolidate-strings: update_source_files returns and main prints the
\* next steps.
consolidate_main_end ==
    /\ At(ConsolidateStrings, "updating") /\ fix_idx = Len(fix_files)
    /\ fix_status' = "done"
    /\ UNCHANGED <<fixer, analysis_file, analysis, replacements, tree, config_dir,
                   fix_files, fix_idx, original_content, content, written,
                   common_strings_file>>
    /\ UNCHANGED <<scanVars, cycVars, impVars, strVars>>

\* fix-colors-fonts, fix_all lines 90-92.
color_fix_all ==
    /\ At(FixColorsFonts, "start")
    /\ fix_files' = SortedFiles(color_collect_swift_files(tree))
    /\ fix_status' = "updating"
    /\ UNCHANGED <<fixer, analysis_file, analysis, replacements, tree, config_dir,
                   fix_idx, original_content, content, written,
                   common_strings_file>>
    /\ UNCHANGED <<scanVars, cycVars, impVars, strVars>>

\* fix-colors-fonts, process_file.
color_process_file ==
    /\ InFixLoop(FixColorsFonts)
    /\ \E c \in FixFileContents : ProcessFile(fix_files[fix_idx + 1], c)

\* fix-colors-fonts, generate_report: printed only.
color_generate_report ==
    /\ At(FixColorsFonts, "updating") /\ fix_idx = Len(fix_files)
    /\ fix_status' = "done"
    /\ UNCHANGED <<fixer, analysis_file, analysis, replacements, tree, config_dir,
                   fix_files, fix_idx, original_content, content, written,
                   common_strings_file>>
    /\ UNCHANGED <<scanVars, cycVars, impVars, strVars>>

\* fix-style-issues, fix_all lines 47-48.
style_fix_all ==
    /\ At(FixStyleIssues, "start")
    /\ fix_files' = SortedFiles(style_collect_swift_files(tree))
    /\ fix_status' = "updating"
    /\ UNCHANGED <<fixer, analysis_file, analysis, replacements, tree, config_dir,
                   fix_idx, original_content, content, written,
                   common_strings_file>>
    /\ UNCHANGED <<scanVars, cycVars, impVars, strVars>>

\* fix-style-issues, fix_all lines 51-53: the name is tested in the loop.
style_process_file ==
    /\ InFixLoop(FixStyleIssues)
    /\ IF Name(fix_files[fix_idx + 1]) \notin protected_files
       THEN \E c \in FixFileContents : ProcessFile(fix_files[fix_idx + 1], c)
       ELSE /\ fix_idx' = fix_idx + 1
            /\ UNCHANGED <<fixer, fix_status, analysis_file, analysis, replacements,
                           tree, config_dir, fix_files, original_content, content,
                           written,
                   common_strings_file>>
            /\ UNCHANGED <<scanVars, cycVars, impVars, strVars>>

\* fix-style-issues, generate_report: style-fixes-report.json is written.
style_generate_report ==
    /\ At(FixStyleIssues, "updating") /\ fix_idx = Len(fix_files)
    /\ written' = Append(written, PathStyleReport)
    /\ fix_status' = "done"
    /\ UNCHANGED <<fixer, analysis_file, analysis, replacements, tree, config_dir,
                   fix_files, fix_idx, original_content, content,
                   common_strings_file>>
    /\ UNCHANGED <<scanVars, cycVars, impVars, strVars>>

NextFix ==
    \/ StringConsolidator_init
    \/ process_duplicates
    \/ generate_app_strings
    \/ update_source_files_collect
    \/ update_source_files
    \/ consolidate_main_end
    \/ color_fix_all
    \/ color_process_file
    \/ color_generate_report
    \/ style_fix_all
    \/ style_process_file
    \/ style_generate_report

SpecFix == InitFix /\ [][NextFix]_vars

-----------------------------------------------------------------------------
(* The cycle searches of analyze_circular_deps (find_cycles_from) and      *)
(* analyze_dependencies_advanced (find_cycles).  A file or class is a      *)
(* number; the order of the numbers is the order of the names.  The        *)
(* dependency graph is the dictionary `dependencies' as the scripts have   *)
(* built it: no node depends on itself.  The neighbours of a node are a    *)
(* sequence, the order in which its set is iterated.  The outer loop takes *)
(* the start nodes in ascending order; every other order is this one under *)
(* a renaming of the nodes.                                                *)
(*                                                                         *)
(* SpecCycles takes the whole search from one start node as one step and   *)
(* computes it with the recursive operators below.  SpecDeep takes every   *)
(* call, loop iteration and return as a step of its own.                   *)

AnalyzeCircularDeps         == "analyze_circular_deps"
AnalyzeDependenciesAdvanced == "analyze_dependencies_advanced"
AnalyzeDependencies         == "analyze-circular-deps"

Range(s) == {s[i] : i \in DOMAIN s}

\* cycle[:-1]
ButLast(s) == SubSeq(s, 1, Len(s) - 1)

\* tuple(sorted(cycle[:-1]))
sorted_tuple(s) == SortSeq(s, LAMBDA a, b : a < b)

\* The elements of a set of numbers in ascending order.
SortedSeqOf(S) ==
    [i \in 1..Cardinality(S) |-> CHOOSE x \in S : Cardinality({y \in S : y < x}) = i - 1]

\* The key of line 121 without sorted(set(...)): the chain as it was found.
chain_as_key(s) == s

\* tuple(sorted(set(cycle[:-1])))
sorted_set_tuple(s) == SortedSeqOf(Range(s))

\* analyze_circular_deps line 122 without a limit on the path.
from_path_unlimited(path) == FALSE

\* analyze_circular_deps line 122: if len(path) > 10.
from_path_too_long(path) == Len(path) > 10

\* analyze_dependencies_advanced line 106: len(path) > 10.
path_too_long(path) == Len(path) > 10

\* find_cycles_from(start, current, path, visited), lines 121-135.  The
\* loop adds next_node to the caller's visited before it recurses on a
\* copy, so later neighbours of current see the earlier ones as visited.
RECURSIVE find_cycles_from(_, _, _, _, _), find_cycles_from_loop(_, _, _, _, _, _)
find_cycles_from(deps, start, current, path, visited) ==
    IF from_path_too_long(path)
    THEN <<>>
    ELSE find_cycles_from_loop(deps, start, current, path, visited, 1)

find_cycles_from_loop(deps, start, current, path, visited, k) ==
    IF k > Len(deps[current])
    THEN <<>>
    ELSE LET next_node == deps[current][k]
         IN  IF next_node = start /\ Len(path) > 2
             THEN <<Append(path, next_node)>>
                  \o find_cycles_from_loop(deps, start, current, path, visited, k + 1)
             ELSE IF next_node \notin visited
             THEN find_cycles_from(deps, start, next_node, Append(path, next_node),
                                   visited \cup {next_node})
                  \o find_cycles_from_loop(deps, start, current, path,
                                           visited \cup {next_node}, k + 1)
             ELSE find_cycles_from_loop(deps, start, current, path, visited, k + 1)

\* find_cycles(start, current, path, visited), lines 103-116.
RECURSIVE find_cycles(_, _, _, _, _, _), find_cycles_loop(_, _, _, _, _, _, _)

\* find_cycles without the test current == start: a path that comes back
\* to any of its classes is returned.
find_cycles_any_return(deps, files, start, current, path, visited) ==
    IF current \in visited /\ Len(path) > 1
    THEN <<path>>
    ELSE IF current \in visited \/ path_too_long(path)
    THEN <<>>
    ELSE find_cycles_loop(deps, files, start, current, path, visited \cup {current}, 1)

find_cycles(deps, files, start, current, path, visited) ==
    IF current \in visited /\ current = start /\ Len(path) > 1
    THEN <<path>>
    ELSE IF current \in visited \/ path_too_long(path)
    THEN <<>>
    ELSE find_cycles_loop(deps, files, start, current, path, visited \cup {current}, 1)

find_cycles_loop(deps, files, start, current, path, visited, k) ==
    IF k > Len(deps[current])
    THEN <<>>
    ELSE LET dep == deps[current][k]
         IN  (IF dep \in files
              THEN find_cycles(deps, files, start, dep, Append(path, dep), visited)
              ELSE <<>>)
             \o find_cycles_loop(deps, files, start, current, path, visited, k + 1)

\* The cycles of one start node recorded with the sorted files as their
\* cycle_path.
RECURSIVE record_longer_cycles_sorted_path(_, _, _)
record_longer_cycles_sorted_path(cycles, checked, longer) ==
    IF cycles = <<>>
    THEN [checked |-> checked, found |-> longer]
    ELSE LET cycle_key == sorted_tuple(ButLast(Head(cycles)))
         IN  IF cycle_key \notin checked /\ Len(cycle_key) > 2
             THEN record_longer_cycles_sorted_path(Tail(cycles), checked \cup {cycle_key},
                      Append(longer, [files |-> cycle_key, cycle_path |-> cycle_key]))
             ELSE record_longer_cycles_sorted_path(Tail(cycles), checked, longer)

\* The cycles of one start node recorded without the test on
\* checked_cycles.
RECURSIVE record_longer_cycles_unchecked(_, _, _)
record_longer_cycles_unchecked(cycles, checked, longer) ==
    IF cycles = <<>>
    THEN [checked |-> checked, found |-> longer]
    ELSE LET cycle_key == sorted_tuple(ButLast(Head(cycles)))
         IN  IF Len(cycle_key) > 2
             THEN record_longer_cycles_unchecked(Tail(cycles), checked \cup {cycle_key},
                      Append(longer, [files |-> cycle_key,
                                      cycle_path |-> ButLast(Head(cycles))]))
             ELSE record_longer_cycles_unchecked(Tail(cycles), checked, longer)

\* analyze_circular_deps lines 143-151: the cycles of one start node are
\* added to longer_cycles unless their key was seen or has two files.
RECURSIVE record_longer_cycles(_, _, _)
record_longer_cycles(cycles, checked, longer) ==
    IF cycles = <<>>
    THEN [checked |-> checked, found |-> longer]
    ELSE LET cycle == Head(cycles)
             cycle_key == sorted_tuple(ButLast(cycle))
         IN  IF cycle_key \notin checked /\ Len(cycle_key) > 2
             THEN record_longer_cycles(Tail(cycles), checked \cup {cycle_key},
                      Append(longer, [files |-> cycle_key, cycle_path |-> ButLast(cycle)]))
             ELSE record_longer_cycles(Tail(cycles), checked, longer)

\* analyze_dependencies_advanced lines 120-127.
RECURSIVE record_chains(_, _, _)
record_chains(cycles, checked, chains) ==
    IF cycles = <<>>
    THEN [checked |-> checked, found |-> chains]
    ELSE LET cycle == Head(cycles)
             cycle_key == sorted_set_tuple(ButLast(cycle))
         IN  IF cycle_key \notin checked
             THEN record_chains(Tail(cycles), checked \cup {cycle_key},
                      Append(chains, [cycle |-> cycle, files |-> ButLast(cycle)]))
             ELSE record_chains(Tail(cycles), checked, chains)

\* The pairs (file_a, file_b) in the order of the loops of lines 103-104.
RECURSIVE dependency_pairs(_, _)
dependency_pairs(deps, keys) ==
    IF keys = <<>> THEN <<>>
    ELSE [k \in 1..Len(deps[Head(keys)]) |-> <<Head(keys), deps[Head(keys)][k]>>]
         \o dependency_pairs(deps, Tail(keys))

\* The direct circular dependencies without the test on checked_pairs.
RECURSIVE direct_pairs_unchecked(_, _, _, _)
direct_pairs_unchecked(deps, pairs, checked_pairs, found) ==
    IF pairs = <<>> THEN found
    ELSE direct_pairs_unchecked(deps, Tail(pairs), checked_pairs,
             IF Head(pairs)[1] \in Range(deps[Head(pairs)[2]])
             THEN Append(found, [files |-> <<Head(pairs)[1], Head(pairs)[2]>>])
             ELSE found)

\* analyze_circular_deps lines 100-119: the direct circular dependencies.
RECURSIVE direct_pairs(_, _, _, _)
direct_pairs(deps, pairs, checked_pairs, found) ==
    IF pairs = <<>> THEN found
    ELSE LET file_a == Head(pairs)[1]
             file_b == Head(pairs)[2]
             pair == sorted_tuple(<<file_a, file_b>>)
         IN  IF pair \in checked_pairs
             THEN direct_pairs(deps, Tail(pairs), checked_pairs, found)
             ELSE direct_pairs(deps, Tail(pairs), checked_pairs \cup {pair},
                      IF file_a \in Range(deps[file_b])
                      THEN Append(found, [files |-> <<file_a, file_b>>])
                      ELSE found)

\* analyze-circular-deps lines 131-136: the pairs printed as `a <-> b'.
RECURSIVE direct_cycles(_, _, _)
direct_cycles(deps, pairs, found) ==
    IF pairs = <<>> THEN found
    ELSE LET file_a == Head(pairs)[1]
             file_b == Head(pairs)[2]
         IN  direct_cycles(deps, Tail(pairs),
                 IF /\ deps[file_b] # <<>>
                    /\ file_a \in Range(deps[file_b])
                    /\ file_a < file_b
                 THEN Append(found, [files |-> <<file_a, file_b>>])
                 ELSE found)

\* The keys of a dictionary, in ascending order.
Keys(S) == SortedSeqOf(S)

\* The files of a small project.
SmallNodes == 1..4

\* The dependency graphs on the nodes `todo' with at most `budget'
\* dependencies, none of a node on itself, in every iteration order.
RECURSIVE GraphsOn(_, _, _)
GraphsOn(all, todo, budget) ==
    IF todo = {} THEN {<<>>}
    ELSE LET n == CHOOSE x \in todo : \A y \in todo : x >= y
         IN  UNION {{g @@ (n :> d) : g \in GraphsOn(all, todo \ {n}, budget - Len(d))} :
                       d \in DistinctSeqs(all \ {n}, budget)}

SmallGraphs == GraphsOn(SmallNodes, SmallNodes, MaxDeps)

\* analyze-circular-deps lines 16-24: the files that can be depended on.
key_files == {1, 2, 3}

\* The dependency graphs of analyze-circular-deps on the nodes `todo': a
\* file depends on key files only, and a key file can depend on itself.
RECURSIVE KeyFileGraphsOn(_, _)
KeyFileGraphsOn(todo, budget) ==
    IF todo = {} THEN {<<>>}
    ELSE LET n == CHOOSE x \in todo : \A y \in todo : x >= y
         IN  UNION {{g @@ (n :> d) : g \in KeyFileGraphsOn(todo \ {n}, budget - Len(d))} :
                       d \in DistinctSeqs(key_files, budget)}

KeyFileGraphs == KeyFileGraphsOn(SmallNodes, MaxDeps)

\* The nodes of the graph.
Nodes == DOMAIN dependencies

InitCycles ==
    /\ cyc_script \in {AnalyzeCircularDeps, AnalyzeDependenciesAdvanced, AnalyzeDependencies}
    /\ dependencies \in IF cyc_script = AnalyzeDependencies THEN KeyFileGraphs
                        ELSE SmallGraphs
    /\ manager_files \in SUBSET SmallNodes
    /\ IF cyc_script \in {AnalyzeCircularDeps, AnalyzeDependencies}
       THEN \* every file is in file_to_path; the keys of dependencies are
            \* the files that have a dependency
            /\ manager_files = SmallNodes
            /\ starts = Keys({n \in SmallNodes : dependencies[n] # <<>>})
            /\ cyc_status = "pairs"
       ELSE \* only a class with a discovered file has dependencies
            /\ \A n \in SmallNodes \ manager_files : dependencies[n] = <<>>
            /\ starts = Keys(manager_files)
            /\ cyc_status = "cycles"
    /\ start_idx = 0
    /\ stack = <<>>
    /\ circular_deps = <<>>
    /\ checked_cycles = {}
    /\ longer_cycles = <<>>
    /\ ScanIdle
    /\ FixIdle
    /\ ImpIdle
    /\ StrIdle

\* analyze_circular_deps lines 100-119.
find_direct_pairs ==
    /\ cyc_script = AnalyzeCircularDeps /\ cyc_status = "pairs"
    /\ circular_deps' = direct_pairs(dependencies, dependency_pairs(dependencies, starts),
                                     {}, <<>>)
    /\ cyc_status' = "cycles"
    /\ UNCHANGED <<cyc_script, dependencies, manager_files, starts, start_idx, stack,
                   checked_cycles, longer_cycles>>
    /\ UNCHANGED <<scanVars, fixVars, impVars, strVars>>

\* analyze-circular-deps lines 127-139: the direct circular dependencies
\* are printed; the script has no search for longer cycles.
analyze_dependencies ==
    /\ cyc_script = AnalyzeDependencies /\ cyc_status = "pairs"
    /\ circular_deps' = direct_cycles(dependencies,
                                      dependency_pairs(dependencies, starts), <<>>)
    /\ cyc_status' = "done"
    /\ UNCHANGED <<cyc_script, dependencies, manager_files, starts, start_idx, stack,
                   checked_cycles, longer_cycles>>
    /\ UNCHANGED <<scanVars, fixVars, impVars, strVars>>

\* analyze_circular_deps lines 141-151: one start node.
find_longer_cycles ==
    /\ cyc_script = AnalyzeCircularDeps /\ cyc_status = "cycles"
    /\ start_idx < Len(starts)
    /\ LET start_node == starts[start_idx + 1]
           cycles == find_cycles_from(dependencies, start_node, start_node,
                                      <<start_node>>, {start_node})
           r == record_longer_cycles(cycles, checked_cycles, longer_cycles)
       IN  /\ checked_cycles' = r.checked
           /\ longer_cycles' = r.found
    /\ start_idx' = start_idx + 1
    /\ UNCHANGED <<cyc_script, cyc_status, dependencies, manager_files, starts, stack,
                   circular_deps>>
    /\ UNCHANGED <<scanVars, fixVars, impVars, strVars>>

\* analyze_dependencies_advanced lines 118-127: one manager.
find_manager_cycles ==
    /\ cyc_script = AnalyzeDependenciesAdvanced /\ cyc_status = "cycles"
    /\ start_idx < Len(starts)
    /\ LET manager == starts[start_idx + 1]
           cycles == find_cycles(dependencies, manager_files, manager, manager,
                                 <<manager>>, {})
           r == record_chains(cycles, checked_cycles, circular_deps)
       IN  /\ checked_cycles' = r.checked
           /\ circular_deps' = r.found
    /\ start_idx' = start_idx + 1
    /\ UNCHANGED <<cyc_script, cyc_status, dependencies, manager_files, starts, stack,
                   longer_cycles>>
    /\ UNCHANGED <<scanVars, fixVars, impVars, strVars>>

\* The outer loop is over and the function returns its result.
return_cycles ==
    /\ cyc_status = "cycles" /\ start_idx = Len(starts) /\ stack = <<>>
    /\ cyc_status' = "done"
    /\ UNCHANGED <<cyc_script, dependencies, manager_files, starts, start_idx, stack,
                   circular_deps, checked_cycles, longer_cycles>>
    /\ UNCHANGED <<scanVars, fixVars, impVars, strVars>>

NextCycles ==
    \/ find_direct_pairs
    \/ analyze_dependencies
    \/ find_longer_cycles
    \/ find_manager_cycles
    \/ return_cycles

SpecCycles == InitCycles /\ [][NextCycles]_vars

-----------------------------------------------------------------------------
(* The searches call by call, on long rings.  A frame of `stack' is one    *)
(* active call: its arguments, the position k of its loop (0 before the    *)
(* tests at the top of the function) and its local list `cycles'.          *)

Frame(current, path, visited) ==
    [current |-> current, path |-> path, visited |-> visited, k |-> 0, cycles |-> <<>>]

Top == stack[Len(stack)]

\* The start node of the search: the current node of the outermost call.
Start == stack[1].current

ReplaceTop(f) == [stack EXCEPT ![Len(stack)] = f]

\* The dependencies a ring can have besides the one on the next node.
Chords == {<<2, 1>>, <<3, 1>>, <<10, 1>>, <<11, 1>>, <<1, 3>>}

\* The ring 1 -> 2 -> ... -> RingSize -> 1 with the given chords; the
\* chord of a node is iterated before or after its ring dependency.
RingGraph(chords, chord_first) ==
    [n \in 1..RingSize |->
        LET ring  == <<(n % RingSize) + 1>>
            extra == SortedSeqOf({c[2] : c \in {x \in chords : x[1] = n}})
        IN  IF chord_first THEN extra \o ring ELSE ring \o extra]

InitDeep ==
    /\ cyc_script \in {AnalyzeCircularDeps, AnalyzeDependenciesAdvanced}
    /\ \E chords \in SUBSET Chords, chord_first \in BOOLEAN :
          dependencies = RingGraph(chords, chord_first)
    /\ IF cyc_script = AnalyzeCircularDeps
       THEN /\ manager_files = 1..RingSize
            /\ cyc_status = "pairs"
       ELSE \* the last class of the ring may be one without a file
            /\ manager_files \in {1..RingSize, 1..(RingSize - 1)}
            /\ cyc_status = "cycles"
    /\ starts = Keys(manager_files)
    /\ start_idx = 0
    /\ stack = <<>>
    /\ circular_deps = <<>>
    /\ checked_cycles = {}
    /\ longer_cycles = <<>>
    /\ ScanIdle
    /\ FixIdle
    /\ ImpIdle
    /\ StrIdle

Searching(s) == cyc_script = s /\ cyc_status = "cycles"

\* A call returns `result' to its caller: the caller extends its list and
\* its loop goes on; the outermost call returns to the outer loop, which
\* records the cycles and goes to the next start node.
Return(result) ==
    IF Len(stack) > 1
    THEN /\ stack' = [ButLast(stack) EXCEPT ![Len(stack) - 1] =
                         [@ EXCEPT !.cycles = @ \o result, !.k = @ + 1]]
         /\ UNCHANGED <<start_idx, circular_deps, checked_cycles, longer_cycles>>
    ELSE /\ stack' = <<>>
         /\ start_idx' = start_idx + 1
         /\ IF cyc_script = AnalyzeCircularDeps
            THEN LET r == record_longer_cycles(result, checked_cycles, longer_cycles)
                 IN  /\ checked_cycles' = r.checked
                     /\ longer_cycles' = r.found
                     /\ UNCHANGED circular_deps
            ELSE LET r == record_chains(result, checked_cycles, circular_deps)
                 IN  /\ checked_cycles' = r.checked
                     /\ circular_deps' = r.found
                     /\ UNCHANGED longer_cycles

\* analyze_circular_deps line 142: the outer loop calls find_cycles_from.
from_start ==
    /\ Searching(AnalyzeCircularDeps) /\ stack = <<>> /\ start_idx < Len(starts)
    /\ LET start_node == starts[start_idx + 1]
       IN  stack' = <<Frame(start_node, <<start_node>>, {start_node})>>
    /\ UNCHANGED <<cyc_script, cyc_status, dependencies, manager_files, starts,
                   start_idx, circular_deps, checked_cycles, longer_cycles>>
    /\ UNCHANGED <<scanVars, fixVars, impVars, strVars>>

\* find_cycles_from lines 122-125: the test on the length of the path.
from_enter ==
    /\ Searching(AnalyzeCircularDeps) /\ stack # <<>> /\ Top.k = 0
    /\ IF from_path_too_long(Top.path)
       THEN Return(<<>>)
       ELSE /\ stack' = ReplaceTop([Top EXCEPT !.k = 1])
            /\ UNCHANGED <<start_idx, circular_deps, checked_cycles, longer_cycles>>
    /\ UNCHANGED <<cyc_script, cyc_status, dependencies, manager_files, starts>>
    /\ UNCHANGED <<scanVars, fixVars, impVars, strVars>>

\* find_cycles_from lines 126-133: one neighbour of current.
from_iterate ==
    /\ Searching(AnalyzeCircularDeps) /\ stack # <<>>
    /\ Top.k >= 1 /\ Top.k <= Len(dependencies[Top.current])
    /\ LET next_node == dependencies[Top.current][Top.k]
       IN  IF next_node = Start /\ Len(Top.path) > 2
           THEN stack' = ReplaceTop([Top EXCEPT
                             !.cycles = Append(@, Append(Top.path, next_node)),
                             !.k = @ + 1])
           ELSE IF next_node \notin Top.visited
           THEN stack' = Append(ReplaceTop([Top EXCEPT !.visited = @ \cup {next_node}]),
                                Frame(next_node, Append(Top.path, next_node),
                                      Top.visited \cup {next_node}))
           ELSE stack' = ReplaceTop([Top EXCEPT !.k = @ + 1])
    /\ UNCHANGED <<cyc_script, cyc_status, dependencies, manager_files, starts,
                   start_idx, circular_deps, checked_cycles, longer_cycles>>
    /\ UNCHANGED <<scanVars, fixVars, impVars, strVars>>

\* find_cycles_from line 135: return cycles.
from_return ==
    /\ Searching(AnalyzeCircularDeps) /\ stack # <<>>
    /\ Top.k > Len(dependencies[Top.current])
    /\ Return(Top.cycles)
    /\ UNCHANGED <<cyc_script, cyc_status, dependencies, manager_files, starts>>
    /\ UNCHANGED <<scanVars, fixVars, impVars, strVars>>

\* analyze_dependencies_advanced line 119: the outer loop calls find_cycles.
manager_start ==
    /\ Searching(AnalyzeDependenciesAdvanced) /\ stack = <<>> /\ start_idx < Len(starts)
    /\ LET manager == starts[start_idx + 1]
       IN  stack' = <<Frame(manager, <<manager>>, {})>>
    /\ UNCHANGED <<cyc_script, cyc_status, dependencies, manager_files, starts,
                   start_idx, circular_deps, checked_cycles, longer_cycles>>
    /\ UNCHANGED <<scanVars, fixVars, impVars, strVars>>

\* find_cycles lines 104-110: the two tests, then visited.add(current).
manager_enter ==
    /\ Searching(AnalyzeDependenciesAdvanced) /\ stack # <<>> /\ Top.k = 0
    /\ IF Top.current \in Top.visited /\ Top.current = Start /\ Len(Top.path) > 1
       THEN Return(<<Top.path>>)
       ELSE IF Top.current \in Top.visited \/ path_too_long(Top.path)
       THEN Return(<<>>)
       ELSE /\ stack' = ReplaceTop([Top EXCEPT !.visited = @ \cup {Top.current}, !.k = 1])
            /\ UNCHANGED <<start_idx, circular_deps, checked_cycles, longer_cycles>>
    /\ UNCHANGED <<cyc_script, cyc_status, dependencies, manager_files, starts>>
    /\ UNCHANGED <<scanVars, fixVars, impVars, strVars>>

\* find_cycles lines 112-114: one dependency of current.
manager_iterate ==
    /\ Searching(AnalyzeDependenciesAdvanced) /\ stack # <<>>
    /\ Top.k >= 1 /\ Top.k <= Len(dependencies[Top.current])
    /\ LET dep == dependencies[Top.current][Top.k]
       IN  IF dep \in manager_files
           THEN stack' = Append(stack, Frame(dep, Append(Top.path, dep), Top.visited))
           ELSE stack' = ReplaceTop([Top EXCEPT !.k = @ + 1])
    /\ UNCHANGED <<cyc_script, cyc_status, dependencies, manager_files, starts,
                   start_idx, circular_deps, checked_cycles, longer_cycles>>
    /\ UNCHANGED <<scanVars, fixVars, impVars, strVars>>

\* find_cycles line 116: return cycles.
manager_return ==
    /\ Searching(AnalyzeDependenciesAdvanced) /\ stack # <<>>
    /\ Top.k > Len(dependencies[Top.current])
    /\ Return(Top.cycles)
    /\ UNCHANGED <<cyc_script, cyc_status, dependencies, manager_files, starts>>
    /\ UNCHANGED <<scanVars, fixVars, impVars, strVars>>

NextDeep ==
    \/ find_direct_pairs
    \/ from_start
    \/ from_enter
    \/ from_iterate
    \/ from_return
    \/ manager_start
    \/ manager_enter
    \/ manager_iterate
    \/ manager_return
    \/ return_cycles

\* The interpreter runs the program on: a step that can be taken is taken.
SpecDeep == InitDeep /\ [][NextDeep]_vars /\ WF_vars(NextDeep)

-----------------------------------------------------------------------------
(* check-functionality, check_circular_dependencies.  The state at the     *)
(* start is self.file_imports as phase 1 has left it: the import lists of  *)
(* the files that could be read, in the order of sorted(swift_files).      *)

PathKit == "MedicationManager/MedicationManagerKit.swift"

\* The files of the project, in the order of sorted(swift_files).
ImportPaths == <<PathData, PathKit, PathHome>>

\* The names an import statement can have.
ModuleNames == <<"MedicationManagerKit", "SwiftUI", "DataManager">>

\* Path(file_path).stem
Stem(p) ==
    CASE p = PathData -> "DataManager"
      [] p = PathKit  -> "MedicationManagerKit"
      [] p = PathHome -> "HomeView"

\* is_local_module, lines 220-223.
is_local_module(module_name) == module_name \in {"MedicationManagerKit"}

\* The paths of file_imports, in insertion order.
ImportedPaths == SelectSeq(ImportPaths, LAMBDA p : p \in DOMAIN file_imports)

\* Lines 228-234, the set dependencies[file_name] of one file, in an
\* iteration order.
local_imports(imports) ==
    SelectSeq(ModuleNames, LAMBDA imp : imp \in imports /\ is_local_module(imp))

\* graph.get(node, [])
Neighbours(graph, node) == IF node \in DOMAIN graph THEN graph[node] ELSE <<>>

\* has_cycle without the test on rec_stack: no back edge is seen.
has_cycle_blind(node, visited, rec_stack, graph) ==
    [found |-> FALSE, visited |-> visited \cup {node}]

\* has_cycle(node, visited, rec_stack, graph), lines 237-249.  visited is
\* one set shared by all calls, so the operator returns it with the
\* answer; rec_stack is the set of the nodes of the active calls.
RECURSIVE has_cycle(_, _, _, _), has_cycle_loop(_, _, _, _, _)
has_cycle(node, visited, rec_stack, graph) ==
    has_cycle_loop(node, visited \cup {node}, rec_stack \cup {node}, graph, 1)

has_cycle_loop(node, visited, rec_stack, graph, k) ==
    IF k > Len(Neighbours(graph, node))
    THEN [found |-> FALSE, visited |-> visited]
    ELSE LET neighbor == Neighbours(graph, node)[k]
         IN  IF neighbor \notin visited
             THEN LET r == has_cycle(neighbor, visited, rec_stack, graph)
                  IN  IF r.found
                      THEN r
                      ELSE has_cycle_loop(node, r.visited, rec_stack, graph, k + 1)
             ELSE IF neighbor \in rec_stack
             THEN [found |-> TRUE, visited |-> visited]
             ELSE has_cycle_loop(node, visited, rec_stack, graph, k + 1)

InitImports ==
    /\ imp_status = "start"
    /\ \E read \in SUBSET Range(ImportPaths) :
          file_imports \in [read -> SUBSET Range(ModuleNames)]
    /\ imp_graph = <<>>
    /\ imp_keys = <<>>
    /\ imp_idx = 0
    /\ imp_visited = {}
    /\ imp_circular = <<>>
    /\ ScanIdle
    /\ FixIdle
    /\ CycIdle
    /\ StrIdle

\* Lines 228-234: a file name becomes a key of dependencies when one of
\* its imports is a local module.
build_dependencies ==
    /\ imp_status = "start"
    /\ LET with_local == SelectSeq(ImportedPaths,
                             LAMBDA p : local_imports(file_imports[p]) # <<>>)
       IN  /\ imp_keys' = [i \in 1..Len(with_local) |-> Stem(with_local[i])]
           /\ imp_graph' = [n \in {Stem(p) : p \in Range(with_local)} |->
                               LET p == CHOOSE q \in Range(with_local) : Stem(q) = n
                               IN  local_imports(file_imports[p])]
    /\ imp_status' = "built"
    /\ UNCHANGED <<file_imports, imp_idx, imp_visited, imp_circular>>
    /\ UNCHANGED <<scanVars, fixVars, cycVars, strVars>>

\* Lines 252-255: one key of dependencies.
check_circular_dependencies ==
    /\ imp_status = "built" /\ imp_idx < Len(imp_keys)
    /\ LET node == imp_keys[imp_idx + 1]
       IN  IF node \notin imp_visited
           THEN LET r == has_cycle(node, imp_visited, {}, imp_graph)
                IN  /\ imp_visited' = r.visited
                    /\ imp_circular' = IF r.found THEN Append(imp_circular, node)
                                       ELSE imp_circular
           ELSE UNCHANGED <<imp_visited, imp_circular>>
    /\ imp_idx' = imp_idx + 1
    /\ UNCHANGED <<imp_status, file_imports, imp_graph, imp_keys>>
    /\ UNCHANGED <<scanVars, fixVars, cycVars, strVars>>

\* The loop is over and check_circular_dependencies returns.
circular_dependencies_checked ==
    /\ imp_status = "built" /\ imp_idx = Len(imp_keys)
    /\ imp_status' = "done"
    /\ UNCHANGED <<file_imports, imp_graph, imp_keys, imp_idx, imp_visited, imp_circular>>
    /\ UNCHANGED <<scanVars, fixVars, cycVars, strVars>>

NextImports ==
    \/ build_dependencies
    \/ check_circular_dependencies
    \/ circular_dependencies_checked

\* The interpreter runs the program on: a step that can be taken is taken.
SpecImports == InitImports /\ [][NextImports]_vars /\ WF_vars(NextImports)

-----------------------------------------------------------------------------
(* analyze-strings.                                                        *)

\* Lines of Swift text with quoted strings.
SText  == "Text(\"Save\")"
SPair  == "Alert(\"Save\", \"Cancel\")"
SSame  == "Picker(\"Save\", selection: \"Save\")"
SPrint == "print(\"Save\")"
SUpper == "Text(\"OK\")"
StringLines == {SText, SPair, SSame, SPrint, SUpper}

StringFileContents ==
    {Unreadable} \cup {[ok |-> TRUE, lines |-> l] : l \in SeqsUpTo(StringLines, MaxLines)}

\* The files a project of analyze-strings can have.
StringPaths == {PathHome, PathLogin, PathFirebase, PathDep}

\* self.excluded_files, lines 19-25 (the names that occur here).
excluded_files == {"FirebaseManager.swift", "PhoneAuthView.swift"}

\* collect_swift_files, lines 43-55.
strings_collect(walked) ==
    SortedFiles({p \in walked : ~InExcludedDir(p) /\ Name(p) \notin excluded_files})

\* extract_strings, lines 69-95, on one line: the matches of the string
\* pattern that pass the filter, in order; a line with print( is skipped
\* and a string in capitals is filtered out.
ui_strings(line) ==
    CASE line = SText -> <<"Save">>
      [] line = SPair -> <<"Save", "Cancel">>
      [] line = SSame -> <<"Save", "Save">>
      [] OTHER        -> <<>>

\* Line 97.
append_location(strs, match, loc) ==
    IF match \in DOMAIN strs
    THEN [strs EXCEPT ![match] = Append(@, loc)]
    ELSE strs @@ (match :> <<loc>>)

\* The count of a string set to 1 at its first occurrence and left alone
\* afterwards.
count_match_once(counts, match) ==
    IF match \in DOMAIN counts THEN counts ELSE counts @@ (match :> 1)

\* Line 98.
count_match(counts, match) ==
    IF match \in DOMAIN counts
    THEN [counts EXCEPT ![match] = @ + 1]
    ELSE counts @@ (match :> 1)

\* Lines 85-98: the matches of line i.
RECURSIVE record_matches(_, _, _, _)
record_matches(matches, loc, strs, counts) ==
    IF matches = <<>>
    THEN [strings |-> strs, string_counts |-> counts]
    ELSE record_matches(Tail(matches), loc,
                        append_location(strs, Head(matches), loc),
                        count_match(counts, Head(matches)))

\* Lines 69-98: the lines from number i on.
RECURSIVE extract_lines(_, _, _, _, _)
extract_lines(ls, i, rel_path, strs, counts) ==
    IF i > Len(ls)
    THEN [strings |-> strs, string_counts |-> counts]
    ELSE LET r == record_matches(ui_strings(ls[i]), <<rel_path, i>>, strs, counts)
         IN  extract_lines(ls, i + 1, rel_path, r.strings, r.string_counts)

\* sum(self.string_counts.values())
RECURSIVE total_occurrences(_, _)
total_occurrences(counts, keys) ==
    IF keys = {} THEN 0
    ELSE LET k == CHOOSE x \in keys : TRUE
         IN  counts[k] + total_occurrences(counts, keys \ {k})

InitStrings ==
    /\ str_status = "start"
    /\ str_tree \in SUBSET StringPaths
    /\ str_files = <<>>
    /\ str_idx = 0
    /\ strings = <<>>
    /\ string_counts = <<>>
    /\ str_report = NoSummary
    /\ ScanIdle
    /\ FixIdle
    /\ CycIdle
    /\ ImpIdle

\* analyze_project, lines 33-34.
strings_collect_swift_files ==
    /\ str_status = "start"
    /\ str_files' = strings_collect(str_tree)
    /\ str_status' = "extracting"
    /\ UNCHANGED <<str_tree, str_idx, strings, string_counts, str_report>>
    /\ UNCHANGED <<scanVars, fixVars, cycVars, impVars>>

\* extract_strings, lines 57-101, on the next file: a read that raises is
\* caught and printed, and nothing is recorded for the file.
extract_strings ==
    /\ str_status = "extracting" /\ str_idx < Len(str_files)
    /\ \E c \in StringFileContents :
          IF c.ok
          THEN LET r == extract_lines(c.lines, 1, str_files[str_idx + 1],
                                      strings, string_counts)
               IN  /\ strings' = r.strings
                   /\ string_counts' = r.string_counts
          ELSE UNCHANGED <<strings, string_counts>>
    /\ str_idx' = str_idx + 1
    /\ UNCHANGED <<str_status, str_tree, str_files, str_report>>
    /\ UNCHANGED <<scanVars, fixVars, cycVars, impVars>>

\* analyze_results, lines 103-116, and the summary of
\* generate_consolidation_report, lines 161-167.
analyze_results ==
    /\ str_status = "extracting" /\ str_idx = Len(str_files)
    /\ LET duplicates == {s \in DOMAIN string_counts : string_counts[s] > 1}
           unique     == {s \in DOMAIN string_counts : string_counts[s] = 1}
       IN  str_report' =
               [total_unique_strings |-> Cardinality(DOMAIN string_counts),
                duplicate_strings    |-> Cardinality(duplicates),
                single_use_strings   |-> Cardinality(unique),
                total_occurrences    |-> total_occurrences(string_counts,
                                                           DOMAIN string_counts)]
    /\ str_status' = "done"
    /\ UNCHANGED <<str_tree, str_files, str_idx, strings, string_counts>>
    /\ UNCHANGED <<scanVars, fixVars, cycVars, impVars>>

NextStrings ==
    \/ strings_collect_swift_files
    \/ extract_strings
    \/ analyze_results

SpecStrings == InitStrings /\ [][NextStrings]_vars

-----------------------------------------------------------------------------
(* Properties of the analysers.                                            *)

\* The records of the report file, if one was written.
Written == report.entries

FileErrors == SelectSeq(issues, LAMBDA e : e.key = "file_errors")

\* The file a record is about: its file field, or the path it is keyed by.
EntryFile(e) == IF "file" \in DOMAIN e.rec THEN e.rec.file ELSE e.key

\* C1: in check-force-unwrap, check-onchange-usage and
\* analyze-force-unwrapping a file that cannot be opened or read does not
\* end the run: no exception escapes, and a run that ends has gone through
\* every discovered file.
C1_ReadFailureDoesNotEndRun ==
    script \in {CheckForceUnwrap, CheckOnChangeUsage, AnalyzeForceUnwrapping} =>
        /\ status # "crashed"
        /\ (status = "done" => idx = Len(Files))

\* C2: check-runtime-simulation never ends with an uncaught error, and
\* when it ends the report is written with summary.total_issues equal to
\* the number of collected issue records, zero included.
C2_SimulationReportWritten ==
    script = CheckRuntimeSimulation =>
        /\ status # "crashed"
        /\ (status = "done" =>
               /\ report.written
               /\ report.total = Len(issues)
               /\ report.entries = issues)

\* C3: in check-all-issues and comprehensive-analysis every read failure is
\* caught and recorded as a file_errors record of severity Critical, and
\* the remaining files are still analysed.
C3_ReadFailureRecorded ==
    script \in {CheckAllIssues, ComprehensiveAnalysis} =>
        /\ status # "crashed"
        /\ Len(FileErrors) = Len(raised)
        /\ \A k \in 1..Len(FileErrors) : FileErrors[k].rec.severity = "Critical"
        /\ (status = "done" => idx = Len(Files))

\* C4: in check-all-issues every file_errors record names, in its file
\* field, the file whose processing raised the error.
C4_FileErrorNamesItsFile ==
    script = CheckAllIssues =>
        \A k \in 1..Len(FileErrors) :
            k <= Len(raised) /\ FileErrors[k].rec.file = raised[k]

\* C8 as stated: every record of a written report that carries a line
\* number has a line number of at least 1.
C8_LineNumbersAtLeastOne ==
    \A k \in 1..Len(Written) :
        "line" \in DOMAIN Written[k].rec => Written[k].rec.line >= 1

\* The record kinds that report a match in one line of the file.
LineLevelKeys ==
    {"force_cast", "force_unwrapping", "memory_issues", "Potential Crashes"} \cup Paths

\* C8, amended: every issue record that carries a line number has a line
\* number of at least 0; a record that reports a match in a line never has
\* 0 (0 is left to the records about the file as a whole), and the number
\* it has is the 1-based index of the matching line in its file.
C8_LineZeroOrOneBased ==
    \A k \in 1..Len(issues) :
        LET e == issues[k]
        IN  "line" \in DOMAIN e.rec =>
                /\ e.rec.line >= 0
                /\ e.key \in LineLevelKeys => e.rec.line >= 1
                /\ (/\ script \in LoopScripts
                    /\ idx > 0
                    /\ EntryFile(e) = Files[idx]
                    /\ e.key \in LineLevelKeys)
                   => (e.rec.line \in 1..Len(lines) /\ lines[e.rec.line] = LCast)

\* A report holds a record with line 0 and a record with line 2.
C8_Witness ==
    /\ \E k \in 1..Len(Written) :
          "line" \in DOMAIN Written[k].rec /\ Written[k].rec.line = 0
    /\ \E k \in 1..Len(Written) :
          "line" \in DOMAIN Written[k].rec /\ Written[k].rec.line = 2

Severities == {"Critical", "High", "Medium", "Low"}

LowerCaseSeverities == {"critical", "high", "medium", "low"}

\* C9 as stated: every record of a written report carries a severity, one
\* of Critical, High, Medium, Low.
C9_SeverityInEnumeration ==
    \A k \in 1..Len(Written) :
        /\ "severity" \in DOMAIN Written[k].rec
        /\ Written[k].rec.severity \in Severities

\* C9, amended: the records written by check-all-issues and
\* comprehensive-analysis each carry a severity that is one of Critical,
\* High, Medium, Low; those of check-runtime-simulation each carry one of
\* critical, high, medium, low, in lower case; those of validate-detailed
\* and analyze-force-unwrapping carry no severity.
C9_SeverityPerScript ==
    \A k \in 1..Len(Written) :
        LET r == Written[k].rec
        IN  CASE script \in {CheckAllIssues, ComprehensiveAnalysis} ->
                    "severity" \in DOMAIN r /\ r.severity \in Severities
              [] script = CheckRuntimeSimulation ->
                    "severity" \in DOMAIN r /\ r.severity \in LowerCaseSeverities
              [] OTHER -> "severity" \notin DOMAIN r

\* comprehensive-analysis wrote a report with a High and a Low record.
C9_Witness ==
    /\ script = ComprehensiveAnalysis
    /\ \E k \in 1..Len(Written) : Written[k].rec.severity = "High"
    /\ \E k \in 1..Len(Written) : Written[k].rec.severity = "Low"

-----------------------------------------------------------------------------
(* Properties of the rewriting scripts.                                    *)

\* C5: no run of consolidate-strings, fix-colors-fonts or fix-style-issues
\* opens for writing a file whose base name is FirebaseManager.swift,
\* PhoneAuthView.swift, LoginView.swift or MedicationManagerApp.swift.
C5_ProtectedFilesNeverWritten ==
    \A k \in DOMAIN written : Name(written[k]) \notin protected_files

\* C5, witness: a run over a tree that holds a protected file has ended
\* after rewriting HomeView.swift.
C5_Witness ==
    /\ fix_status = "done"
    /\ \E p \in tree : Name(p) \in protected_files
    /\ \E k \in DOMAIN written : written[k] = PathHome

\* C6: consolidate-strings opens no file for writing before
\* string-analysis-report.json has been read and parsed, and when the
\* report is missing or is not JSON the run ends in the constructor with
\* nothing written.
C6_NothingWrittenBeforeAnalysisLoaded ==
    fixer = ConsolidateStrings =>
        /\ (written # <<>> => analysis.loaded /\ analysis_file.state = "parsed")
        /\ (analysis_file.state # "parsed" =>
               written = <<>> /\ fix_status \in {"start", "crashed"})

\* C6, witness: a run of consolidate-strings that loaded the report has
\* ended after writing CommonStrings.swift and a source file.
C6_Witness ==
    /\ fixer = ConsolidateStrings
    /\ fix_status = "done"
    /\ analysis.loaded
    /\ Len(written) >= 2

-----------------------------------------------------------------------------
(* Properties of the cycle searches.                                       *)

\* The node sequences of length n that are a simple directed cycle of the
\* dependency graph.
SimpleCycles(n) ==
    IF n > Cardinality(Nodes) THEN {}
    ELSE {c \in DistinctSeqs(Nodes, n) :
             /\ Len(c) = n
             /\ \A i \in 1..n : c[(i % n) + 1] \in Range(dependencies[c[i]])}

\* C10: when analyze_circular_deps has finished, longer_cycles has, for
\* every simple directed cycle of 3 to 10 distinct files of the dependency
\* graph, an entry whose files are exactly the files of that cycle.
C10_EverySimpleCycleReported ==
    (cyc_script = AnalyzeCircularDeps /\ cyc_status = "done") =>
        \A n \in 3..10 : \A c \in SimpleCycles(n) :
            \E k \in DOMAIN longer_cycles : Range(longer_cycles[k].files) = Range(c)

\* The longest list of nodes a search may build: the start node and ten more.
PathBounded ==
    /\ \A i \in DOMAIN stack :
          /\ Len(stack[i].path) <= 11
          /\ \A j \in DOMAIN stack[i].cycles : Len(stack[i].cycles[j]) <= 11
    /\ \A i \in DOMAIN longer_cycles : Len(longer_cycles[i].cycle_path) <= 11
    /\ \A i \in DOMAIN circular_deps :
          "cycle" \in DOMAIN circular_deps[i] => Len(circular_deps[i].cycle) <= 11

\* C7: on a dependency graph with cycles, find_cycles_from and find_cycles
\* never hold or return a path of more than 11 nodes, and the run over all
\* start nodes comes to its end.
C7_SearchTerminatesWithinDepth ==
    [](PathBounded) /\ <>(cyc_status = "done")

\* C7, witness: a call is active on a path of 11 nodes, which only its
\* first test can still look at.
C7_Witness ==
    /\ stack # <<>>
    /\ Len(Top.path) = 11
    /\ Len(stack) = 11

\* The entries of circular_dependencies whose classes are the nodes of c.
ChainsOver(c) ==
    {k \in DOMAIN circular_deps : Range(circular_deps[k].cycle) = Range(c)}

\* C11: when analyze_dependencies_advanced has finished, then for every
\* simple directed cycle of 2 to 10 distinct classes that all have a
\* discovered file, circular_dependencies has exactly one entry whose
\* classes are the classes of that cycle.
C11_EachManagerCycleReportedOnce ==
    (cyc_script = AnalyzeDependenciesAdvanced /\ cyc_status = "done") =>
        \A n \in 2..10 : \A c \in SimpleCycles(n) :
            Range(c) \subseteq manager_files => Cardinality(ChainsOver(c)) = 1

\* C11, witness: a finished run on a graph that has a cycle of two classes
\* and a cycle of three classes, all with files.
C11_Witness ==
    /\ cyc_script = AnalyzeDependenciesAdvanced
    /\ cyc_status = "done"
    /\ \E c \in SimpleCycles(2) : Range(c) \subseteq manager_files
    /\ \E c \in SimpleCycles(3) : Range(c) \subseteq manager_files
    /\ Len(circular_deps) >= 2

-----------------------------------------------------------------------------
(* Properties of check_circular_dependencies.                              *)

\* The nodes that can be reached from the nodes of S along one or more
\* dependencies.
RECURSIVE ReachedFrom(_, _)
ReachedFrom(S, seen) ==
    LET next == UNION {Range(Neighbours(imp_graph, n)) : n \in S} \ seen
    IN  IF next = {} THEN seen ELSE ReachedFrom(next, seen \cup next)

\* The node lies on a directed cycle.
OnCycle(n) == n \in ReachedFrom({n}, {})

\* The node lies on a directed cycle or reaches one.
ReachesCycle(n) == OnCycle(n) \/ \E m \in ReachedFrom({n}, {}) : OnCycle(m)

\* C12: the loop of check_circular_dependencies comes to its end, and then
\* results['circular_dependencies'] is non-empty exactly when a file node
\* of the import graph reaches a directed cycle, and every node in it
\* reaches one.
C12_CycleReportedIffPresent ==
    /\ [](imp_status = "done" =>
            /\ (imp_circular # <<>>) <=> (\E n \in Range(imp_keys) : ReachesCycle(n))
            /\ \A k \in DOMAIN imp_circular : ReachesCycle(imp_circular[k]))
    /\ <>(imp_status \in {"done", "idle"})

\* C12, witness: the run has ended on a project in which the file
\* MedicationManagerKit.swift imports MedicationManagerKit and another file
\* imports it too, with something reported.
C12_Witness ==
    /\ imp_status = "done"
    /\ Len(imp_keys) >= 2
    /\ \E n \in Range(imp_keys) : OnCycle(n)
    /\ imp_circular # <<>>

-----------------------------------------------------------------------------
(* Properties of the direct circular-dependency reports.                   *)

\* The scripts that report direct circular dependencies.
DirectReported ==
    \/ cyc_script = AnalyzeCircularDeps /\ cyc_status \in {"cycles", "done"}
    \/ cyc_script = AnalyzeDependencies /\ cyc_status = "done"

\* The entries of the report for the unordered pair of a and b.
EntriesFor(a, b) ==
    {k \in DOMAIN circular_deps : Range(circular_deps[k].files) = {a, b}}

\* Each of the two files depends on the other.
Mutual(a, b) ==
    a \in Range(dependencies[b]) /\ b \in Range(dependencies[a])

\* C13: once the direct circular dependencies are reported, every pair of
\* distinct files that depend on each other has exactly one entry, and a
\* pair with a direction missing has none; every entry is for a pair of
\* distinct files.
C13_OneEntryPerMutualPair ==
    DirectReported =>
        /\ \A a, b \in Nodes :
              a # b => Cardinality(EntriesFor(a, b)) = IF Mutual(a, b) THEN 1 ELSE 0
        /\ \A k \in DOMAIN circular_deps :
              Cardinality(Range(circular_deps[k].files)) = 2

\* C13, witness: a report with an entry, made on a graph that has a pair
\* in both directions and a dependency in one direction only.
C13_Witness ==
    /\ DirectReported
    /\ circular_deps # <<>>
    /\ \E a, b \in Nodes : a # b /\ Mutual(a, b)
    /\ \E a, b \in Nodes :
          a # b /\ b \in Range(dependencies[a]) /\ a \notin Range(dependencies[b])

-----------------------------------------------------------------------------
(* Properties of the entries of longer_cycles and of the chains.           *)

\* No element occurs twice in the sequence.
PairwiseDistinct(s) == \A i, j \in DOMAIN s : s[i] = s[j] => i = j

\* Each element depends on the next one, and the last on the first.
ClosedPath(s) ==
    \A i \in DOMAIN s :
        s[IF i = Len(s) THEN 1 ELSE i + 1] \in Range(dependencies[s[i]])

\* C14: at every moment of analyze_circular_deps, the cycle_path of every
\* entry of longer_cycles has at least 3 files, no file twice, each file
\* depending on the next and the last on the first.
C14_CyclePathIsSimpleCycle ==
    cyc_script = AnalyzeCircularDeps =>
        \A k \in DOMAIN longer_cycles :
            LET cycle_path == longer_cycles[k].cycle_path
            IN  /\ Len(cycle_path) >= 3
                /\ PairwiseDistinct(cycle_path)
                /\ ClosedPath(cycle_path)

\* C14, witness: the search is over and longer_cycles has an entry of 3
\* files and an entry of 4 files whose path is not in ascending order.
C14_Witness ==
    /\ cyc_script = AnalyzeCircularDeps /\ cyc_status = "done"
    /\ \E k \in DOMAIN longer_cycles : Len(longer_cycles[k].cycle_path) = 3
    /\ \E k \in DOMAIN longer_cycles :
          /\ Len(longer_cycles[k].cycle_path) = 4
          /\ longer_cycles[k].cycle_path # longer_cycles[k].files

\* C15: at every moment of analyze_dependencies_advanced, every chain
\* starts and ends with the same class, each class of it depends on the
\* next, its classes without the repeated end are pairwise distinct, and
\* each of them has a discovered file.
C15_ChainIsCycleOfManagers ==
    cyc_script = AnalyzeDependenciesAdvanced =>
        \A k \in DOMAIN circular_deps :
            LET cycle == circular_deps[k].cycle
            IN  /\ Len(cycle) >= 2
                /\ cycle[1] = cycle[Len(cycle)]
                /\ \A i \in 1..(Len(cycle) - 1) :
                      cycle[i + 1] \in Range(dependencies[cycle[i]])
                /\ PairwiseDistinct(ButLast(cycle))
                /\ Range(cycle) \subseteq manager_files

\* C15, witness: the search is over on a graph in which a cycle has a tail
\* leading into it (a class that reaches the cycle and is not on it), and
\* chains of 2 and of 3 classes are reported.
C15_Witness ==
    /\ cyc_script = AnalyzeDependenciesAdvanced /\ cyc_status = "done"
    /\ \E k \in DOMAIN circular_deps : Len(circular_deps[k].cycle) = 3
    /\ \E k \in DOMAIN circular_deps : Len(circular_deps[k].cycle) = 4
    /\ \E n \in manager_files :
          /\ dependencies[n] # <<>>
          /\ \A k \in DOMAIN circular_deps : n \notin Range(circular_deps[k].cycle)

-----------------------------------------------------------------------------
(* Properties of consolidate-strings.                                      *)

\* C17: when consolidate() has returned, CommonStrings.swift holds exactly
\* the text generate_app_strings wrote: update_source_files has not
\* altered it.
C17_CommonStringsKeptAsGenerated ==
    At(ConsolidateStrings, "done") => common_strings_file = common_strings_content

-----------------------------------------------------------------------------
(* Properties of analyze-strings.                                          *)

\* C18: at every moment of analyze-strings, each recorded string has a
\* count of at least 1 that equals the number of its locations, and once
\* the report is made, duplicate_strings + single_use_strings equals
\* total_unique_strings.
C18_CountsMatchLocations ==
    /\ DOMAIN strings = DOMAIN string_counts
    /\ \A s \in DOMAIN strings :
          string_counts[s] >= 1 /\ string_counts[s] = Len(strings[s])
    /\ str_status = "done" =>
          str_report.duplicate_strings + str_report.single_use_strings
              = str_report.total_unique_strings

\* C18, witness: the report is made after two files were gone through,
\* with a string recorded twice for the same line, a string found in both
\* files, and a string found once.
C18_Witness ==
    /\ str_status = "done" /\ str_idx = 2
    /\ str_report.duplicate_strings >= 1
    /\ str_report.single_use_strings >= 1
    /\ \E s \in DOMAIN strings :
          /\ \E i, j \in DOMAIN strings[s] : i # j /\ strings[s][i] = strings[s][j]
          /\ \E i, j \in DOMAIN strings[s] : strings[s][i][1] # strings[s][j][1]

=============================================================================
